---- MODULE Spec2Model ----
\* ProxiedClient of eh2telegraph/src/http_proxy.rs: an HTTP client wrapper
\* that either sends requests straight to their URL (direct mode) or rewrites
\* them to a fixed proxy endpoint, carrying the destination and a credential
\* in two headers (proxied mode).
\*
\* Strings are sequences of one-character strings, so that parsing a string
\* into a Url or a HeaderValue is computed character by character.
\* Option<T> and Result<T, E> are sequences of length at most one:
\* None / Err(..) is << >>, Some(x) / Ok(x) is <<x>>.
EXTENDS Integers, Sequences, FiniteSets, TLC

VARIABLES heap, last, nfc, log, panicked

vars == <<heap, last, nfc, log, panicked>>

\* ------------------------------------------------------------------ bounds

\* Number of ProxiedClient values the program creates in one run.
MaxClients == 2

\* ------------------------------------------------------- program constants

CONFIG_KEY == "proxy"

\* const TIMEOUT: Duration = Duration::from_secs(30), in seconds.
TIMEOUT == 30

\* ------------------------------------------------------------------ Option

None == << >>

Some(x) == <<x>>

IsSome(o) == Len(o) = 1

Unwrap(o) == o[1]

\* ----------------------------------------------------------------- strings

Empty == << >>

Uppers == <<"E", "H", "K", "P", "T">>

Lowers == <<"e", "h", "k", "p", "t">>

\* char::to_ascii_lowercase on the letters the inputs use.
ToLower(c) ==
  IF \E i \in 1..Len(Uppers) : Uppers[i] = c
  THEN Lowers[CHOOSE i \in 1..Len(Uppers) : Uppers[i] = c]
  ELSE c

IsAlpha(c) ==
  \/ \E i \in 1..Len(Uppers) : Uppers[i] = c
  \/ \E i \in 1..Len(Lowers) : Lowers[i] = c
  \/ c \in {"a", "b", "m", "i", "l", "o", "z"}

LowerStr(s) == [i \in 1..Len(s) |-> ToLower(s[i])]

\* Index of the first occurrence of character c in s, 0 when absent.
IndexOf(s, c) ==
  IF \E i \in 1..Len(s) : s[i] = c
  THEN CHOOSE i \in 1..Len(s) : s[i] = c /\ \A j \in 1..(i - 1) : s[j] # c
  ELSE 0

\* The C0 control characters (and space) among the characters the inputs use.
IsC0OrSpace(c) == c \in {" ", "\n", "\t"}

\* The characters the URL parser deletes wherever they stand.
IsTabOrNewline(c) == c \in {"\n", "\t"}

\* s without its leading characters that satisfy IsC0OrSpace.
RECURSIVE TrimStart(_)
TrimStart(s) ==
  IF s # Empty /\ IsC0OrSpace(Head(s)) THEN TrimStart(Tail(s)) ELSE s

RECURSIVE TrimEnd(_)
TrimEnd(s) ==
  IF s # Empty /\ IsC0OrSpace(s[Len(s)])
  THEN TrimEnd(SubSeq(s, 1, Len(s) - 1))
  ELSE s

\* s without its leading '/' characters.
RECURSIVE SkipSlashes(_)
SkipSlashes(s) ==
  IF s # Empty /\ Head(s) = "/" THEN SkipSlashes(Tail(s)) ELSE s

\* Percent-encoding of the path: a space becomes %20, the rest is kept.
RECURSIVE EncodePath(_)
EncodePath(s) ==
  IF s = Empty THEN Empty
  ELSE IF Head(s) = " " THEN <<"%", "2", "0">> \o EncodePath(Tail(s))
  ELSE <<Head(s)>> \o EncodePath(Tail(s))

\* ---------------------------------------------------------------- the Url

SpecialSchemes ==
  { <<"h", "t", "t", "p">>, <<"h", "t", "t", "p", "s">>, <<"w", "s">>,
    <<"w", "s", "s">>, <<"f", "t", "p">> }

\* str::parse::<reqwest::Url>() of `endpoint.parse()`, and the same parser
\* behind reqwest's IntoUrl for &str: Err (<< >>) or Ok(<<url>>), for inputs
\* without userinfo, port, query or fragment. It trims C0 controls and spaces
\* at both ends, deletes tabs and newlines, needs a scheme (there is no base
\* URL), lower-cases scheme and host, and gives a special scheme the path "/"
\* when the input has none.
UrlParse(input) ==
  LET s == SelectSeq(TrimEnd(TrimStart(input)), LAMBDA c : ~IsTabOrNewline(c))
      colon == IndexOf(s, ":")
      schemeRaw == SubSeq(s, 1, colon - 1)
      rest == SubSeq(s, colon + 1, Len(s))
      scheme == LowerStr(schemeRaw)
  IN
  IF colon < 2 \/ \E i \in 1..Len(schemeRaw) : ~IsAlpha(schemeRaw[i])
  THEN None                                \* RelativeUrlWithoutBase
  ELSE IF scheme \in SpecialSchemes
  THEN LET after == SkipSlashes(rest)
           slash == IndexOf(after, "/")
           hostRaw == IF slash = 0 THEN after ELSE SubSeq(after, 1, slash - 1)
           pathRaw == IF slash = 0 THEN Empty
                      ELSE SubSeq(after, slash, Len(after))
       IN IF hostRaw = Empty THEN None     \* EmptyHost
          ELSE IF \E i \in 1..Len(hostRaw) : hostRaw[i] = " "
          THEN None                        \* InvalidDomainCharacter
          ELSE Some([scheme |-> scheme,
                     host |-> Some(LowerStr(hostRaw)),
                     path |-> IF pathRaw = Empty THEN <<"/">>
                              ELSE EncodePath(pathRaw)])
  ELSE IF Len(rest) >= 2 /\ rest[1] = "/" /\ rest[2] = "/"
  THEN LET after == SubSeq(rest, 3, Len(rest))
           slash == IndexOf(after, "/")
       IN Some([scheme |-> scheme,
                host |-> Some(IF slash = 0 THEN after
                              ELSE SubSeq(after, 1, slash - 1)),
                path |-> IF slash = 0 THEN Empty
                         ELSE SubSeq(after, slash, Len(after))])
  ELSE Some([scheme |-> scheme, host |-> None, path |-> rest])

\* Url::as_str(): the serialisation of a parsed Url.
UrlStr(u) ==
  u.scheme \o <<":">>
    \o (IF IsSome(u.host) THEN <<"/", "/">> \o Unwrap(u.host) ELSE Empty)
    \o u.path

\* Url::has_host().
HasHost(u) == IsSome(u.host)

\* ---------------------------------------------------------- the HeaderValue

\* http::header::HeaderValue: a byte is valid when it is a tab or neither a
\* control character nor DEL.
IsValidHeaderByte(c) == c = "\t" \/ c \notin {"\n", "\r", "\t"}

\* str::parse::<HeaderValue>() of `authorization.parse()`, and the
\* TryFrom<&str> behind RequestBuilder::header: Err (<< >>) or Ok(<<value>>),
\* the value holding the bytes of the input unchanged. The empty string is a
\* valid HeaderValue.
HeaderValueFromStr(s) ==
  IF \A i \in 1..Len(s) : IsValidHeaderByte(s[i]) THEN Some(s) ELSE None

\* ------------------------------------------------------------ the transport

\* reqwest::Client::default(), the `inner` of a derived-Default ProxiedClient:
\* a client with reqwest's own defaults, which set no request timeout and no
\* caller-supplied default headers.
DefaultInner == [timeout |-> None, default_headers |-> {}]

\* reqwest::Client::builder().timeout(TIMEOUT).default_headers(headers).build()
\* (new leaves default_headers out, which is the empty map).
BuildInner(headers) == [timeout |-> Some(TIMEOUT), default_headers |-> headers]

\* IntoUrl for &str: parse, then require a host.
IntoUrlStr(s) ==
  LET r == UrlParse(s)
  IN IF IsSome(r) /\ HasHost(Unwrap(r)) THEN r ELSE None

\* IntoUrl for Url: require a host.
IntoUrlUrl(u) == IF HasHost(u) THEN Some(u) ELSE None

\* reqwest::Client::request(method, url): a RequestBuilder holding the client
\* and either the request (method, url, no headers yet) or the error of the
\* URL conversion.
ClientRequest(inner, method, url) ==
  [client |-> inner,
   request |-> IF IsSome(url)
               THEN Some([method |-> method, url |-> Unwrap(url),
                          headers |-> << >>])
               ELSE None]

\* reqwest::RequestBuilder::header(name, value), `value` the result of the
\* conversion to a HeaderValue: appends the header, or turns the builder into
\* an error when the value is not a valid header value; an error stays.
Header(rb, name, value) ==
  IF ~IsSome(rb.request) THEN rb
  ELSE IF ~IsSome(value) THEN [rb EXCEPT !.request = None]
  ELSE [rb EXCEPT !.request =
          Some([Unwrap(rb.request) EXCEPT
                  !.headers = Append(@, <<name, Unwrap(value)>>)])]

\* The names of the headers a request carries.
HeaderNames(hs) == {hs[i][1] : i \in 1..Len(hs)}

\* reqwest::RequestBuilder::send() on an Ok builder: what goes on the wire. The
\* request's own headers, the client's default headers whose names the request
\* does not carry, and the client's timeout.
Execute(rb) ==
  LET req == Unwrap(rb.request)
      own == {req.headers[i] : i \in 1..Len(req.headers)}
  IN [method |-> req.method,
      url |-> req.url,
      headers |-> own \cup {h \in rb.client.default_headers :
                              h[1] \notin HeaderNames(req.headers)},
      timeout |-> rb.client.timeout]

\* --------------------------------------------------------- the ProxiedClient

\* The outcome of a constructor: a panic with its message, or the client.
Panic(msg) == [panic |-> msg, value |-> None]

Return(client) == [panic |-> "", value |-> Some(client)]

\* ProxiedClient::default(): #[derive(Default)], proxy None and the default
\* reqwest client.
Default == [proxy |-> None, inner |-> DefaultInner]

\* new with a copy-and-paste slip: the authorization is parsed from the
\* endpoint argument.
new_authorization_from_endpoint(endpoint, authorization) ==
  LET e == UrlParse(endpoint)
      a == HeaderValueFromStr(endpoint)
  IN IF ~IsSome(e) THEN Panic("unable to parse proxy endpoint")
     ELSE IF ~IsSome(a) THEN Panic("unable to parse proxy authorization")
     ELSE Return([proxy |-> Some([endpoint |-> Unwrap(e),
                                  authorization |-> Unwrap(a)]),
                  inner |-> BuildInner({})])

\* ProxiedClient::new(endpoint, authorization).
new(endpoint, authorization) ==
  LET e == UrlParse(endpoint)
      a == HeaderValueFromStr(authorization)
  IN IF ~IsSome(e) THEN Panic("unable to parse proxy endpoint")
     ELSE IF ~IsSome(a) THEN Panic("unable to parse proxy authorization")
     ELSE Return([proxy |-> Some([endpoint |-> Unwrap(e),
                                  authorization |-> Unwrap(a)]),
                  inner |-> BuildInner({})])

\* with_default_headers with `..Self::default()` for `..self`: the proxy state
\* is lost.
with_default_headers_of_default(self, headers) ==
  [proxy |-> None, inner |-> BuildInner(headers)]

\* with_default_headers that adds to the receiver's default headers instead of
\* rebuilding from the given ones.
with_default_headers_accumulating(self, headers) ==
  [self EXCEPT !.inner =
     BuildInner(self.inner.default_headers \cup headers)]

\* ProxiedClient::with_default_headers(self, headers): the transport rebuilt,
\* `..self` for the rest.
with_default_headers(self, headers) ==
  [self EXCEPT !.inner = BuildInner(headers)]

\* impl_method with the proxied arm sending to the caller's url instead of the
\* proxy endpoint.
impl_method_to_url(method, self, url) ==
  IF IsSome(self.proxy)
  THEN LET p == Unwrap(self.proxy)
       IN Header(Header(ClientRequest(self.inner, method, IntoUrlStr(url)),
                        "X-Forwarded-For", HeaderValueFromStr(url)),
                 "X-Authorization", Some(p.authorization))
  ELSE ClientRequest(self.inner, method, IntoUrlStr(url))

\* impl_method!($method): pub fn $method(&self, url: &str), `method` the
\* Method that reqwest's Client::$method passes to Client::request.
impl_method(method, self, url) ==
  IF IsSome(self.proxy)
  THEN LET p == Unwrap(self.proxy)
       IN Header(Header(ClientRequest(self.inner, method,
                                      IntoUrlUrl(p.endpoint)),
                        "X-Forwarded-For", HeaderValueFromStr(url)),
                 "X-Authorization", Some(p.authorization))
  ELSE ClientRequest(self.inner, method, IntoUrlStr(url))

\* request with X-Forwarded-For attached in the direct arm too.
request_always_forwarded(self, method, url) ==
  IF IsSome(self.proxy)
  THEN LET p == Unwrap(self.proxy)
       IN Header(Header(ClientRequest(self.inner, method,
                                      IntoUrlUrl(p.endpoint)),
                        "X-Forwarded-For", HeaderValueFromStr(url)),
                 "X-Authorization", Some(p.authorization))
  ELSE Header(ClientRequest(self.inner, method, IntoUrlStr(url)),
              "X-Forwarded-For", HeaderValueFromStr(url))

\* ProxiedClient::request(&self, method, url).
request(self, method, url) ==
  IF IsSome(self.proxy)
  THEN LET p == Unwrap(self.proxy)
       IN Header(Header(ClientRequest(self.inner, method,
                                      IntoUrlUrl(p.endpoint)),
                        "X-Forwarded-For", HeaderValueFromStr(url)),
                 "X-Authorization", Some(p.authorization))
  ELSE ClientRequest(self.inner, method, IntoUrlStr(url))

\* ------------------------------------------------------------------ inputs

EpNormal == <<"h", "t", "t", "p", ":", "/", "/", "p", "/">>

EpUpper == <<"H", "T", "T", "P", ":", "/", "/", "P">>

EpRelative == <<"p">>

EpNoHost == <<"m", "a", "i", "l", "t", "o", ":", "p">>

\* The endpoint arguments callers pass to new.
Endpoints == {Empty, EpNormal, EpUpper, EpRelative, EpNoHost}

AuthKey == <<"k">>

AuthNewline == <<"k", "\n">>

\* The authorization arguments callers pass to new.
Authorizations == {Empty, AuthKey, AuthNewline}

UrlNormal == <<"h", "t", "t", "p", ":", "/", "/", "e", "/", "a">>

UrlUpper == <<"H", "T", "T", "P", ":", "/", "/", "E">>

UrlNewline == <<"h", "t", "t", "p", ":", "/", "/", "e", "/", "\n", "a">>

UrlRelative == <<"e", "/", "a">>

\* The url arguments callers pass to the request builders.
Urls == {UrlNormal, UrlUpper, UrlNewline, UrlRelative}

\* The reqwest::Method values callers pass to request.
Methods == {"GET", "OPTIONS"}

HeadersA == {<<"A", <<"1">>>>}

HeadersAuth == {<<"X-Authorization", <<"z">>>>}

\* The HeaderMap arguments callers pass to with_default_headers.
HeaderMaps == {HeadersA, HeadersAuth}

\* What the configuration source holds under CONFIG_KEY: a malformed source,
\* no entry, or an entry whose fields may each be missing.
ConfigSources ==
  {[state |-> "malformed", endpoint |-> None, authorization |-> None],
   [state |-> "absent", endpoint |-> None, authorization |-> None]}
  \cup [state : {"present"},
        endpoint : {None, Some(Empty), Some(EpNormal), Some(EpUpper),
                    Some(EpRelative)},
        authorization : {None, Some(Empty), Some(AuthKey), Some(AuthNewline)}]

\* #[serde(default)] on both fields of ProxyConfig: a missing field is the
\* empty string.
ProxyConfig(src) ==
  [endpoint |-> IF IsSome(src.endpoint) THEN Unwrap(src.endpoint) ELSE Empty,
   authorization |-> IF IsSome(src.authorization)
                     THEN Unwrap(src.authorization) ELSE Empty]

\* config::parse::<ProxyConfig>(key): Err for a malformed source, Ok(None) for
\* no entry, Ok(Some(cfg)) for an entry. [ok, value].
ConfigParse(key, src) ==
  IF src.state = "malformed" THEN [ok |-> FALSE, value |-> None]
  ELSE IF src.state = "absent" THEN [ok |-> TRUE, value |-> None]
  ELSE [ok |-> TRUE, value |-> Some(ProxyConfig(src))]

\* ------------------------------------------------------------------- state

\* heap[i]: the ProxiedClient value binding i holds; a binding that holds no
\* value (never assigned, or moved out of) has live = FALSE.
Vacant == [live |-> FALSE, proxy |-> None, inner |-> DefaultInner]

Slot(client) == [live |-> TRUE, proxy |-> client.proxy, inner |-> client.inner]

Value(slot) == [proxy |-> slot.proxy, inner |-> slot.inner]

Slots == 1..MaxClients

\* The binding that receives the next client: the lowest vacant one other
\* than `except` (0 for none).
FreeSlot(except) ==
  IF \E i \in Slots : ~heap[i].live /\ i # except
  THEN CHOOSE i \in Slots :
         /\ ~heap[i].live /\ i # except
         /\ \A j \in Slots : (~heap[j].live /\ j # except) => i <= j
  ELSE 0

\* The record of the most recent call: its name, arguments and results.
NoCall ==
  [op |-> "", self |-> 0, recv |-> None, method |-> "", url |-> Empty,
   headers |-> {}, endpoint |-> Empty, authorization |-> Empty,
   cfg |-> None, log0 |-> 0, ret |-> 0, rb |-> None, wire |-> None]

NfcIdle == [pc |-> "idle", cfg |-> None, log0 |-> 0]

\* WarnIncomplete with the two format arguments in the wrong order.
WarnIncomplete_swapped(cfg) ==
  [text |-> "proxy config incomplete (endpoint: {}, authorization: {}), using direct connection",
   endpoint |-> IF cfg.authorization = Empty THEN "empty" ELSE "set",
   authorization |-> IF cfg.endpoint = Empty THEN "empty" ELSE "set"]

\* The warning of the `Some(cfg)` arm: the message with its two arguments.
WarnIncomplete(cfg) ==
  [text |-> "proxy config incomplete (endpoint: {}, authorization: {}), using direct connection",
   endpoint |-> IF cfg.endpoint = Empty THEN "empty" ELSE "set",
   authorization |-> IF cfg.authorization = Empty THEN "empty" ELSE "set"]

\* The warning of the `None` arm: the message has no arguments.
WarnNoConfig ==
  [text |-> "no proxy config found, using direct connection",
   endpoint |-> "", authorization |-> ""]

\* The message of the .expect(..) on the configuration lookup; the literal has
\* no format arguments, so the braces are printed as written.
ConfigPanic == "unable to parse proxy config(key is {CONFIG_KEY})"

\* Arm with a guard that tests the endpoint alone.
Arm_endpoint_only(cfg) ==
  IF IsSome(cfg) /\ ~(Unwrap(cfg).endpoint = Empty) THEN "new"
  ELSE IF IsSome(cfg) THEN "incomplete"
  ELSE "none"

\* The arm the match of new_from_config takes for Ok(cfg), cfg an
\* Option<ProxyConfig>.
Arm(cfg) ==
  IF IsSome(cfg) /\ ~(Unwrap(cfg).endpoint = Empty)
                 /\ ~(Unwrap(cfg).authorization = Empty)
  THEN "new"
  ELSE IF IsSome(cfg) THEN "incomplete"
  ELSE "none"

Init ==
  /\ heap = [i \in Slots |-> Vacant]
  /\ last = NoCall
  /\ nfc = NfcIdle
  /\ log = << >>
  /\ panicked = ""

\* A call can start: the process has not panicked, no new_from_config is in
\* progress on this thread.
Ready == panicked = "" /\ nfc.pc = "idle"

\* The application constructs its client once, at startup; every other client
\* of the run is cloned or rebuilt from it.
Startup == Ready /\ \A i \in Slots : ~heap[i].live

\* ----------------------------------------------------------------- actions

\* A constructor's outcome reaches the caller: the panic aborts the process,
\* the client is bound to the next binding. `call` is the record of the call.
Finish(outcome, call) ==
  IF outcome.panic # ""
  THEN /\ panicked' = outcome.panic
       /\ last' = call
       /\ UNCHANGED heap
  ELSE /\ heap' = [heap EXCEPT ![FreeSlot(0)] = Slot(Unwrap(outcome.value))]
       /\ last' = [call EXCEPT !.ret = FreeSlot(0)]
       /\ UNCHANGED panicked

\* let c = ProxiedClient::new(endpoint, authorization)
New(endpoint, authorization) ==
  /\ Startup
  /\ Finish(new(endpoint, authorization),
            [NoCall EXCEPT !.op = "new", !.endpoint = endpoint,
                           !.authorization = authorization])
  /\ UNCHANGED <<nfc, log>>

\* let c = ProxiedClient::default()
DefaultClient ==
  /\ Startup
  /\ Finish(Return(Default), [NoCall EXCEPT !.op = "default"])
  /\ UNCHANGED <<nfc, log>>

\* new_from_config, the scrutinee of its match:
\* config::parse::<ProxyConfig>(CONFIG_KEY).expect(..)
NewFromConfigParse(src) ==
  /\ Startup
  /\ LET r == ConfigParse(CONFIG_KEY, src)
     IN IF r.ok
        THEN /\ nfc' = [pc |-> "match", cfg |-> r.value, log0 |-> Len(log)]
             /\ last' = [NoCall EXCEPT !.op = "config::parse"]
             /\ UNCHANGED panicked
        ELSE /\ panicked' = ConfigPanic
             /\ last' = [NoCall EXCEPT !.op = "new_from_config"]
             /\ UNCHANGED nfc
  /\ UNCHANGED <<heap, log>>

\* new_from_config, first arm: Some(cfg) with both fields non-empty.
NewFromConfigNew ==
  /\ panicked = ""
  /\ nfc.pc = "match"
  /\ Arm(nfc.cfg) = "new"
  /\ Finish(new(Unwrap(nfc.cfg).endpoint, Unwrap(nfc.cfg).authorization),
            [NoCall EXCEPT !.op = "new_from_config", !.cfg = nfc.cfg,
                           !.log0 = nfc.log0])
  /\ nfc' = NfcIdle
  /\ UNCHANGED log

\* new_from_config, second and third arm up to the warning: tracing::warn!(..)
NewFromConfigWarn ==
  /\ panicked = ""
  /\ nfc.pc = "match"
  /\ \/ /\ Arm(nfc.cfg) = "incomplete"
        /\ log' = Append(log, WarnIncomplete(Unwrap(nfc.cfg)))
     \/ /\ Arm(nfc.cfg) = "none"
        /\ log' = Append(log, WarnNoConfig)
  /\ nfc' = [nfc EXCEPT !.pc = "default"]
  /\ UNCHANGED <<heap, last, panicked>>

\* new_from_config, second and third arm after the warning: Self::default()
NewFromConfigDefault ==
  /\ panicked = ""
  /\ nfc.pc = "default"
  /\ Finish(Return(Default),
            [NoCall EXCEPT !.op = "new_from_config", !.cfg = nfc.cfg,
                           !.log0 = nfc.log0])
  /\ nfc' = NfcIdle
  /\ UNCHANGED log

\* let d = c.clone()   (#[derive(Clone)])
Clone(i) ==
  /\ Ready
  /\ heap[i].live
  /\ FreeSlot(0) # 0
  /\ heap' = [heap EXCEPT ![FreeSlot(0)] = heap[i]]
  /\ last' = [NoCall EXCEPT !.op = "clone", !.self = i,
                            !.recv = Some(Value(heap[i])),
                            !.ret = FreeSlot(0)]
  /\ UNCHANGED <<nfc, log, panicked>>

\* let d = c.with_default_headers(headers): `self` is taken by value, so the
\* binding c is moved out of and the result is bound to d.
WithDefaultHeaders(i, headers) ==
  /\ Ready
  /\ heap[i].live
  /\ FreeSlot(i) # 0
  /\ heap' = [heap EXCEPT
                ![i] = Vacant,
                ![FreeSlot(i)] =
                  Slot(with_default_headers(Value(heap[i]), headers))]
  /\ last' = [NoCall EXCEPT !.op = "with_default_headers", !.self = i,
                            !.recv = Some(Value(heap[i])),
                            !.headers = headers, !.ret = FreeSlot(i)]
  /\ UNCHANGED <<nfc, log, panicked>>

\* Accessor that sends the request it builds right away.
Accessor_sending(name, method, i, url) ==
  /\ Ready
  /\ heap[i].live
  /\ LET rb == impl_method(method, Value(heap[i]), url)
     IN last' = [NoCall EXCEPT !.op = name, !.self = i, !.method = method,
                               !.url = url, !.rb = Some(rb),
                               !.wire = IF IsSome(rb.request)
                                        THEN Some(Execute(rb)) ELSE None]
  /\ UNCHANGED <<heap, nfc, log, panicked>>

\* let rb = c.$method(url), for one of the six accessors impl_method! makes.
Accessor(name, method, i, url) ==
  /\ Ready
  /\ heap[i].live
  /\ last' = [NoCall EXCEPT !.op = name, !.self = i, !.method = method,
                            !.url = url,
                            !.rb = Some(impl_method(method, Value(heap[i]),
                                                    url))]
  /\ UNCHANGED <<heap, nfc, log, panicked>>

Get(i, url) == Accessor("get", "GET", i, url)

Post(i, url) == Accessor("post", "POST", i, url)

Head_(i, url) == Accessor("head", "HEAD", i, url)

Put(i, url) == Accessor("put", "PUT", i, url)

Delete(i, url) == Accessor("delete", "DELETE", i, url)

Patch(i, url) == Accessor("patch", "PATCH", i, url)

\* let rb = c.request(method, url)
Request(i, method, url) ==
  /\ Ready
  /\ heap[i].live
  /\ last' = [NoCall EXCEPT !.op = "request", !.self = i, !.method = method,
                            !.url = url,
                            !.rb = Some(request(Value(heap[i]), method, url))]
  /\ UNCHANGED <<heap, nfc, log, panicked>>

\* The names of the seven request builders.
BuilderOps == {"get", "post", "head", "put", "delete", "patch", "request"}

\* rb.send(): the caller dispatches the builder it was just given. An error
\* builder returns its error without touching the network.
Send ==
  /\ Ready
  /\ last.op \in BuilderOps
  /\ IsSome(Unwrap(last.rb).request)
  /\ last' = [last EXCEPT !.op = "send",
                          !.wire = Some(Execute(Unwrap(last.rb)))]
  /\ UNCHANGED <<heap, nfc, log, panicked>>

Next ==
  \/ \E e \in Endpoints, a \in Authorizations : New(e, a)
  \/ DefaultClient
  \/ \E src \in ConfigSources : NewFromConfigParse(src)
  \/ NewFromConfigNew
  \/ NewFromConfigWarn
  \/ NewFromConfigDefault
  \/ \E i \in Slots : Clone(i)
  \/ \E i \in Slots, h \in HeaderMaps : WithDefaultHeaders(i, h)
  \/ \E i \in Slots, u \in Urls : Get(i, u)
  \/ \E i \in Slots, u \in Urls : Post(i, u)
  \/ \E i \in Slots, u \in Urls : Head_(i, u)
  \/ \E i \in Slots, u \in Urls : Put(i, u)
  \/ \E i \in Slots, u \in Urls : Delete(i, u)
  \/ \E i \in Slots, u \in Urls : Patch(i, u)
  \/ \E i \in Slots, m \in Methods, u \in Urls : Request(i, m, u)
  \/ Send

Spec == Init /\ [][Next]_vars

\* ------------------------------------------------------- claims: vocabulary

\* The reqwest::Method each accessor is named after.
MethodNamed ==
  [get |-> "GET", post |-> "POST", head |-> "HEAD", put |-> "PUT",
   delete |-> "DELETE", patch |-> "PATCH"]

\* The method the most recent builder call has to use: the accessor's own, or
\* the argument of request.
BuiltMethod == IF last.op = "request" THEN last.method ELSE MethodNamed[last.op]

\* The most recent call was a request builder on a proxied / a direct client.
BuiltProxied == last.op \in BuilderOps /\ IsSome(heap[last.self].proxy)

BuiltDirect == last.op \in BuilderOps /\ ~IsSome(heap[last.self].proxy)

\* The builder that call returned, and the request it holds when it is Ok.
Built == Unwrap(last.rb)

BuiltRequest == Unwrap(Built.request)

\* The two headers a proxied client injects for the most recent builder call.
Injected ==
  << <<"X-Forwarded-For", last.url>>,
     <<"X-Authorization", Unwrap(heap[last.self].proxy).authorization>> >>

\* u can be a header value: it has no control character other than tab.
HeaderSafe(u) == \A k \in 1..Len(u) : u[k] \notin {"\n", "\r"}

\* What the url inputs parse to as absolute URLs with a host; the relative
\* "e/a" does not parse.
UrlTarget(u) ==
  CASE u = UrlNormal -> Some(UrlNormal)
    [] u = UrlUpper -> Some(<<"h", "t", "t", "p", ":", "/", "/", "e", "/">>)
    [] u = UrlNewline -> Some(UrlNormal)
    [] OTHER -> None

\* ------------------------------------------------------------------- C1

\* C1 as stated: for a proxied client and ANY caller url, each of the seven
\* builders returns a request that targets the stored endpoint, uses the
\* accessor's (or the given) method, and carries exactly X-Forwarded-For = url
\* and X-Authorization = the stored credential.
C1_AnyUrlBuildsProxiedRequest ==
  BuiltProxied =>
    /\ IsSome(Built.request)
    /\ BuiltRequest.url = Unwrap(heap[last.self].proxy).endpoint
    /\ BuiltRequest.method = BuiltMethod
    /\ BuiltRequest.headers = Injected

\* C1 amended: the same, for a proxied client whose endpoint has a host and a
\* url that is a valid header value; for any other url, or an endpoint
\* without a host, the builder holds an error and no request. All seven
\* builders decide alike.
C1_HeaderSafeUrlBuildsProxiedRequest ==
  BuiltProxied =>
    LET p == Unwrap(heap[last.self].proxy)
    IN IF HeaderSafe(last.url) /\ IsSome(p.endpoint.host)
       THEN /\ IsSome(Built.request)
            /\ BuiltRequest.url = p.endpoint
            /\ BuiltRequest.method = BuiltMethod
            /\ BuiltRequest.headers = Injected
       ELSE ~IsSome(Built.request)

\* A proxied client with a usable endpoint has built a PATCH request.
C1_Witness ==
  /\ BuiltProxied
  /\ last.op = "patch"
  /\ IsSome(Built.request)
  /\ last.url = UrlUpper

\* ------------------------------------------------------------------- C2

\* C2 as stated: for a direct client and ANY caller url, each of the seven
\* builders returns a request that targets url exactly as supplied, with the
\* given method and neither injected header.
C2_DirectTargetsUrlVerbatim ==
  BuiltDirect =>
    /\ IsSome(Built.request)
    /\ UrlStr(BuiltRequest.url) = last.url
    /\ BuiltRequest.method = BuiltMethod
    /\ BuiltRequest.headers = << >>

\* C2 amended: for a direct client, a url that parses as an absolute URL with
\* a host yields a request that targets the parsed URL (url itself when it is
\* already in normal form), with the given method and no header at all; a url
\* that does not parse yields a builder holding an error.
C2_DirectTargetsParsedUrl ==
  BuiltDirect =>
    IF IsSome(UrlTarget(last.url))
    THEN /\ IsSome(Built.request)
         /\ UrlStr(BuiltRequest.url) = Unwrap(UrlTarget(last.url))
         /\ BuiltRequest.method = BuiltMethod
         /\ BuiltRequest.headers = << >>
    ELSE ~IsSome(Built.request)

\* A direct client has built a request for a url that is in normal form.
C2_Witness ==
  /\ BuiltDirect
  /\ last.op = "request"
  /\ last.method = "OPTIONS"
  /\ IsSome(Built.request)
  /\ UrlStr(BuiltRequest.url) = last.url

\* ------------------------------------------- claims: construction vocabulary

\* The most recent call was new_from_config and its configuration lookup
\* succeeded; it has ended, by returning or by panicking.
FromConfigEnded ==
  last.op = "new_from_config" /\ panicked # ConfigPanic

\* The most recent call was a constructor that returned a client.
Returned == last.ret # 0

Constructed == heap[last.ret]

\* Both fields of the looked-up configuration are present and non-empty.
CfgComplete ==
  /\ IsSome(last.cfg)
  /\ Unwrap(last.cfg).endpoint # Empty
  /\ Unwrap(last.cfg).authorization # Empty

\* What the endpoint inputs parse to; the empty and the relative one do not.
EndpointStored(e) ==
  CASE e = EpNormal -> Some(EpNormal)
    [] e = EpUpper -> Some(EpNormal)
    [] e = EpNoHost -> Some(EpNoHost)
    [] OTHER -> None

\* ------------------------------------------------------------------- C3

\* C3 as stated: when the lookup succeeds, new_from_config returns a proxied
\* client if and only if the configuration is present with both fields
\* non-empty; otherwise it returns a direct client and never aborts. A
\* default-constructed client is direct.
C3_ProxiedIffBothNonEmpty ==
  /\ FromConfigEnded =>
       /\ (Returned /\ IsSome(Constructed.proxy)) <=> CfgComplete
       /\ ~CfgComplete => (Returned /\ panicked = "")
  /\ last.op = "default" => (Returned /\ ~IsSome(Constructed.proxy))

\* C3 amended: when the lookup succeeds, new_from_config returns a proxied
\* client if and only if both fields are non-empty, the endpoint parses as a
\* URL and the authorization as a header value; with both non-empty and one
\* of them unparsable it aborts; with a field empty or missing, or no
\* configuration at all, it returns a direct client and never aborts. A
\* default-constructed client is direct.
C3_ProxiedIffBothNonEmptyAndParsable ==
  /\ FromConfigEnded =>
       LET parsable ==
             /\ IsSome(EndpointStored(Unwrap(last.cfg).endpoint))
             /\ HeaderSafe(Unwrap(last.cfg).authorization)
       IN /\ (Returned /\ IsSome(Constructed.proxy))
               <=> (CfgComplete /\ parsable)
          /\ (CfgComplete /\ ~parsable) => (~Returned /\ panicked # "")
          /\ ~CfgComplete =>
               (Returned /\ ~IsSome(Constructed.proxy) /\ panicked = "")
  /\ last.op = "default" => (Returned /\ ~IsSome(Constructed.proxy))

\* new_from_config has returned a direct client for a configuration whose
\* endpoint is set and whose authorization is empty.
C3_Witness ==
  /\ FromConfigEnded
  /\ Returned
  /\ ~IsSome(Constructed.proxy)
  /\ IsSome(last.cfg)
  /\ Unwrap(last.cfg).endpoint = EpNormal
  /\ Unwrap(last.cfg).authorization = Empty

\* ------------------------------------------------------------------- C4

\* C4 as stated: every Proxy a client holds has a non-empty endpoint and a
\* non-empty authorization, and new with an empty or unparsable endpoint or an
\* empty or non-header-safe authorization panics instead of returning.
C4_ProxyFieldsNonEmpty ==
  /\ \A i \in Slots :
       (heap[i].live /\ IsSome(heap[i].proxy)) =>
         /\ UrlStr(Unwrap(heap[i].proxy).endpoint) # Empty
         /\ Unwrap(heap[i].proxy).authorization # Empty
  /\ (last.op = "new"
        /\ (\/ ~IsSome(EndpointStored(last.endpoint))
            \/ last.authorization = Empty
            \/ ~HeaderSafe(last.authorization)))
       => (~Returned /\ panicked # "")

\* ------------------------------------------------------------------- C5

\* C5 as stated: new with a valid non-empty pair returns a proxied client
\* whose stored endpoint and authorization read back as exactly the input
\* strings, and so does new_from_config for its two configuration fields.
C5_StoredEqualsInput ==
  /\ (last.op = "new" /\ Returned) =>
       /\ IsSome(Constructed.proxy)
       /\ UrlStr(Unwrap(Constructed.proxy).endpoint) = last.endpoint
       /\ Unwrap(Constructed.proxy).authorization = last.authorization
  /\ (FromConfigEnded /\ Returned /\ CfgComplete) =>
       /\ IsSome(Constructed.proxy)
       /\ UrlStr(Unwrap(Constructed.proxy).endpoint)
            = Unwrap(last.cfg).endpoint
       /\ Unwrap(Constructed.proxy).authorization
            = Unwrap(last.cfg).authorization

\* C5 amended: new with a parsable endpoint and a header-safe non-empty
\* authorization returns a proxied client that stores the authorization
\* exactly and the endpoint as the URL it parses to, which reads back as the
\* input only when the input is already in normal form ("HTTP://P" reads back
\* as "http://p/"); the same for new_from_config and its two fields.
C5_StoredIsParsedInput ==
  /\ (last.op = "new" /\ IsSome(EndpointStored(last.endpoint))
        /\ HeaderSafe(last.authorization) /\ last.authorization # Empty)
       => (Returned /\ panicked = "")
  /\ (last.op = "new" /\ Returned) =>
       /\ IsSome(Constructed.proxy)
       /\ Some(UrlStr(Unwrap(Constructed.proxy).endpoint))
            = EndpointStored(last.endpoint)
       /\ Unwrap(Constructed.proxy).authorization = last.authorization
  /\ (FromConfigEnded /\ Returned /\ CfgComplete) =>
       /\ IsSome(Constructed.proxy)
       /\ Some(UrlStr(Unwrap(Constructed.proxy).endpoint))
            = EndpointStored(Unwrap(last.cfg).endpoint)
       /\ Unwrap(Constructed.proxy).authorization
            = Unwrap(last.cfg).authorization

\* new_from_config has returned a proxied client for an endpoint that is not
\* in normal form.
C5_Witness ==
  /\ FromConfigEnded
  /\ Returned
  /\ CfgComplete
  /\ Unwrap(last.cfg).endpoint = EpUpper
  /\ UrlStr(Unwrap(Constructed.proxy).endpoint) = EpNormal

\* ------------------------------------------------------------------- C6

\* The most recent call was with_default_headers; Receiver is the value the
\* receiver held when it was called.
Rebuilt == last.op = "with_default_headers"

Receiver == Unwrap(last.recv)

\* C6 as stated: with_default_headers returns a new client with the
\* receiver's proxy state, and after the call the original client is
\* unmodified and can still be used.
C6_ReceiverStillUsable ==
  Rebuilt =>
    /\ heap[last.ret].live
    /\ heap[last.ret].proxy = Receiver.proxy
    /\ heap[last.self].live
    /\ Value(heap[last.self]) = Receiver

\* C6 amended: with_default_headers returns a new client with the receiver's
\* proxy state (proxied stays proxied with the same endpoint and credential,
\* direct stays direct); it takes the receiver by value, so the original
\* binding is moved out of and cannot be used after the call.
C6_ReceiverConsumed ==
  Rebuilt =>
    /\ last.ret # last.self
    /\ heap[last.ret].live
    /\ heap[last.ret].proxy = Receiver.proxy
    /\ ~heap[last.self].live

\* with_default_headers has been applied to a proxied client.
C6_Witness ==
  /\ Rebuilt
  /\ IsSome(Receiver.proxy)
  /\ last.headers = HeadersA

\* ------------------------------------------------------------------- C7

\* C7 as stated: the transport of every client has the 30-second timeout,
\* whether the client comes from new, from new_from_config in either outcome,
\* or from with_default_headers, and every request sent is subject to it.
C7_EveryClientHasTimeout ==
  /\ (last.op \in {"new", "new_from_config", "with_default_headers"}
        /\ Returned)
       => Constructed.inner.timeout = Some(TIMEOUT)
  /\ Rebuilt =>
       (Receiver.inner.timeout = Some(TIMEOUT)
          /\ Constructed.inner.timeout = Receiver.inner.timeout)
  /\ last.op = "send" => Unwrap(last.wire).timeout = Some(TIMEOUT)

\* ------------------------------------------------------------------- C8

\* The calls that use a client after its construction.
UseOps == BuilderOps \cup {"clone", "with_default_headers", "send"}

\* C8: a step of get, post, head, put, delete, patch, request, clone,
\* with_default_headers or send, in any interleaving, leaves the proxy state
\* of every client that exists before and after it unchanged, gives a client
\* it creates the proxy state of its receiver, and writes no log line; a
\* request builder changes no client at all and dispatches nothing.
C8_ModeFixedAtConstruction ==
  [][ (last'.op \in UseOps) =>
        /\ \A i \in Slots :
             (heap[i].live /\ heap'[i].live) => heap'[i].proxy = heap[i].proxy
        /\ \A i \in Slots :
             (~heap[i].live /\ heap'[i].live) =>
               heap'[i].proxy = heap[last'.self].proxy
        /\ log' = log
        /\ panicked' = panicked
        /\ (last'.op \in BuilderOps) =>
             (heap' = heap /\ ~IsSome(last'.wire))
    ]_vars

\* A request has been built on a proxied client while a clone of it exists.
C8_Witness ==
  /\ BuiltProxied
  /\ IsSome(Built.request)
  /\ \E j \in Slots :
       /\ j # last.self
       /\ heap[j].live
       /\ heap[j].proxy = heap[last.self].proxy

\* ------------------------------------------------------------------- C9

\* The most recent call was new_from_config and it fell back to direct mode.
FellBack == FromConfigEnded /\ Returned /\ ~IsSome(Constructed.proxy)

\* The warning that call logged.
Warning == log[Len(log)]

\* The word a warning uses for a field.
Named(field) == IF field = Empty THEN "empty" ELSE "set"

\* C9 as stated: every fallback logs one warning before returning, and the
\* warning names which of endpoint and authorization are empty, also when the
\* configuration is missing altogether (then both are); a malformed source
\* never falls back, it aborts.
C9_WarningNamesEmptyFields ==
  /\ nfc.pc = "default" => Len(log) = nfc.log0 + 1
  /\ FellBack =>
       /\ Len(log) = last.log0 + 1
       /\ Warning.endpoint =
            (IF IsSome(last.cfg) THEN Named(Unwrap(last.cfg).endpoint)
             ELSE "empty")
       /\ Warning.authorization =
            (IF IsSome(last.cfg) THEN Named(Unwrap(last.cfg).authorization)
             ELSE "empty")
  /\ panicked = ConfigPanic => \A i \in Slots : ~heap[i].live

\* C9 amended: every fallback logs one warning before returning; for a
\* configuration that is present with an empty or missing field the warning
\* names which of endpoint and authorization are empty, and for a
\* configuration that is missing altogether it says that no proxy
\* configuration was found and names no field; a malformed source never falls
\* back, it aborts.
C9_WarningNamesFieldsOfPresentConfig ==
  /\ nfc.pc = "default" => Len(log) = nfc.log0 + 1
  /\ FellBack =>
       /\ Len(log) = last.log0 + 1
       /\ IF IsSome(last.cfg)
          THEN /\ Warning.endpoint = Named(Unwrap(last.cfg).endpoint)
               /\ Warning.authorization
                    = Named(Unwrap(last.cfg).authorization)
               /\ "empty" \in {Warning.endpoint, Warning.authorization}
          ELSE /\ Warning.text
                    = "no proxy config found, using direct connection"
               /\ Warning.endpoint = ""
               /\ Warning.authorization = ""
  /\ panicked = ConfigPanic => \A i \in Slots : ~heap[i].live

\* new_from_config has fallen back for a configuration whose endpoint alone
\* is empty.
C9_Witness ==
  /\ FellBack
  /\ IsSome(last.cfg)
  /\ Unwrap(last.cfg).endpoint = Empty
  /\ Unwrap(last.cfg).authorization = AuthKey

\* ------------------------------------------------------------------- C10

\* C10: with_default_headers rebuilds the transport, so the default headers of
\* the returned client are exactly the ones given, whatever the receiver had;
\* a request sent carries its own headers and those defaults whose names it
\* does not carry itself; and a request a proxied client builds and sends
\* carries the two injected headers with their values, whatever the defaults.
C10_DefaultHeadersReplaced ==
  /\ Rebuilt => heap[last.ret].inner.default_headers = last.headers
  /\ last.op = "send" =>
       LET own == {BuiltRequest.headers[k] :
                     k \in 1..Len(BuiltRequest.headers)}
           sent == Unwrap(last.wire).headers
           defaults == heap[last.self].inner.default_headers
       IN /\ own \subseteq sent
          /\ sent \ own \subseteq defaults
          /\ \A h \in defaults : \E g \in sent : g[1] = h[1]
          /\ IsSome(heap[last.self].proxy) =>
               /\ {Injected[1], Injected[2]} \subseteq sent
               /\ \A g \in sent :
                    g[1] \in {"X-Forwarded-For", "X-Authorization"} =>
                      g \in {Injected[1], Injected[2]}

\* c.with_default_headers(h1).with_default_headers(h2) with a header of h1
\* that h2 lacks, on a proxied client.
C10_Witness ==
  /\ Rebuilt
  /\ IsSome(Receiver.proxy)
  /\ Receiver.inner.default_headers = HeadersA
  /\ last.headers = HeadersAuth

====
